---- MODULE Spec2Model ----
(***************************************************************************)
(* Model of the proof-chaining client of raito:                            *)
(*   scripts/data/prove_pow.py              (scheduler, pipeline, runner)  *)
(*   scripts/data/format_assumevalid_args.py (arguments payload encoding)  *)
(*                                                                         *)
(* Tokens are field elements, written in the files as hex strings; they    *)
(* are modelled by the integers they denote ("0x0" is 0, "0x1" is 1).      *)
(* An Optional value is a sequence of length at most one: <<>> is None,    *)
(* <<v>> is the value v.  A directory is a function from the keys of the   *)
(* files it holds to their contents.                                       *)
(***************************************************************************)
EXTENDS Integers, Sequences, FiniteSets, TLC

\* ------------------------------------------------------------------ bounds

\* Largest explicit --start, --blocks and --step the model tries.
MaxStart == 1
MaxBlocks == 2
MaxStep == 2
\* Invocations of the script against the same two directories.
MaxRuns == 2
\* Longest batch serialisation and longest proof the codec is applied to.
MaxLen == 2
\* Longest timeout given to run on its own, longest time its process takes
\* and longest time the wait takes beyond the timeout, in whole seconds.
MaxTimeout == 2
MaxDur == 3
MaxLag == 1
\* Largest resident set size a stage reports to the totals of a job.
MaxRss == 2

\* --------------------------------------------------------------- constants

None == <<>>
Some(v) == <<v>>

\* The two values of the Option tag of the previous proof.
TagSome == 0
TagNone == 1

\* Return codes an external process can end with (0 is success; a negative
\* code is a death by signal).
ExitCodes == {0, 1, 0 - 1}

\* Maximum resident set sizes /usr/bin/time can report; None when its line
\* is missing from stderr.
RssValues == {None, Some(1)}

\* Proof artifacts an external prover can write: token sequences, among
\* them the empty one and one whose first token equals a tag value.
ProofValues == {<<>>, <<0, 2>>}

Tokens == {0, 1, 2}

StartArgs == {None} \cup {Some(s) : s \in (0 - 1)..MaxStart}
BlocksArgs == (0 - 1)..MaxBlocks
StepArgs == (0 - 1)..MaxStep

\* The values argparse gives --blocks and --step when they are left out.
DefaultBlocks == 1
DefaultStep == 10

Stages == <<"PIE", "BOOTLOAD", "PROVE">>

VARIABLES
  pc,               \* position of the script
  linux,            \* platform.system() == "Linux"
  runs,             \* invocations of the script so far
  proofs,           \* PROOF_DIR: height -> tokens of light_<height>.proof.json
  batchFiles,       \* TMP_DIR: <<height, step>> -> light_<height>_<step>.json
  argsFiles,        \* TMP_DIR: <<height, step>> -> ...-arguments.json
  start, blocks, step,   \* the parameters of main
  idx,              \* position of the for loop in height_range
  processed_count,
  previous_proof_file,   \* of the current job: None or Some(height)
  args,             \* arguments payload of the current job
  steps_info,       \* of the current job
  job_result,       \* None, or Some(what the last prove_batch returned)
  started,          \* heights prove_batch was called with, this run
  invoked,          \* <<height, stage>> of the processes spawned, this run
  failed,           \* heights whose prove_batch returned False, this run
  artifact,         \* None, or Some(the proof the last successful job wrote)
  readProof,        \* heights whose proof file was read, this run
  wroteProofs,      \* proof files the last step wrote
  wroteArgs,        \* arguments files the last step wrote
  auto,             \* start came from auto_detect_start
  last_run,         \* None, or Some(parameters and end of the previous run)
  proofs_at_launch, \* PROOF_DIR as the current run found it
  in_batch,         \* codec: the tokens of the serialised batch
  call,             \* run on its own: None, or Some(timeout and process)
  returned,         \* run on its own: None, or Some(what the call returned)
  metrics           \* None, or Some(the totals prove_batch computed last)

vars == <<pc, linux, runs, proofs, batchFiles, argsFiles, start, blocks, step,
          idx, processed_count, previous_proof_file, args, steps_info,
          job_result, started, invoked, failed, artifact, readProof,
          wroteProofs, wroteArgs, auto, last_run, proofs_at_launch, in_batch,
          call, returned, metrics>>

\* ----------------------------------------------------------------- helpers

Max(S) == CHOOSE x \in S : \A y \in S : y <= x

Last(s) == s[Len(s)]

\* The directory d after writing file k with content v (created or replaced).
WriteFile(d, k, v) == [x \in DOMAIN d \cup {k} |-> IF x = k THEN v ELSE d[x]]

EmptyDir == [x \in {} |-> <<>>]

\* Sequences over S of length at most n.
SeqsUpTo(S, n) == UNION {[1..k -> S] : k \in 0..n}

\* ------------------------------------------------ format_assumevalid_args.py

\* generate_data(mode, initial_height, num_blocks, fast): the batch for
\* [height, height+step), an opaque deterministic function of its arguments.
generate_data(height, num_blocks) ==
  [chain_state |-> height, blocks |-> num_blocks]

\* format_args_to_cairo_serde: the opaque deterministic serialiser of a batch.
format_args_to_cairo_serde(batch) == <<batch.chain_state, batch.blocks>>

\* read_proof_file(proof_path): open() raises when the file does not exist.
read_proof_file(proof_path, dir) ==
  IF proof_path \in DOMAIN dir
  THEN [raised |-> FALSE, value |-> dir[proof_path]]
  ELSE [raised |-> TRUE, value |-> <<>>]

\* An encoder that tests the proof data, not the path: an empty proof is
\* encoded as no proof.
generate_assumevalid_args_data(serialized, proof_path, dir) ==
  IF proof_path # None
  THEN LET proof_data == read_proof_file(proof_path[1], dir)
       IN  IF proof_data.raised
           THEN [raised |-> TRUE, value |-> <<>>, read |-> {}]
           ELSE IF proof_data.value = <<>>
           THEN [raised |-> FALSE, value |-> serialized \o <<TagNone>>,
                 read |-> {proof_path[1]}]
           ELSE [raised |-> FALSE,
                 value |-> (serialized \o <<TagSome>>) \o proof_data.value,
                 read |-> {proof_path[1]}]
  ELSE [raised |-> FALSE, value |-> serialized \o <<TagNone>>, read |-> {}]

\* An encoder that probes for the proof file: a missing file is encoded as
\* no proof.
generate_assumevalid_args_probe(serialized, proof_path, dir) ==
  IF proof_path # None /\ proof_path[1] \in DOMAIN dir
  THEN [raised |-> FALSE,
        value |-> (serialized \o <<TagSome>>) \o dir[proof_path[1]],
        read |-> {proof_path[1]}]
  ELSE [raised |-> FALSE, value |-> serialized \o <<TagNone>>, read |-> {}]

\* generate_assumevalid_args(block_data_path, proof_path), given the tokens
\* the serialiser returns for the batch file and the proof directory.  The
\* result names the proof files it read.
generate_assumevalid_args(serialized, proof_path, dir) ==
  IF proof_path # None
  THEN LET proof_data == read_proof_file(proof_path[1], dir)
       IN  IF proof_data.raised
           THEN [raised |-> TRUE, value |-> <<>>, read |-> {}]
           ELSE [raised |-> FALSE,
                 value |-> (serialized \o <<TagSome>>) \o proof_data.value,
                 read |-> {proof_path[1]}]
  ELSE [raised |-> FALSE, value |-> serialized \o <<TagNone>>, read |-> {}]

\* The reader of the tokens that follow the serialised batch: the tag first,
\* then, for the present tag, the remaining tokens as the proof.  Any other
\* tag has no decoding.
decode(tokens) ==
  CASE tokens[1] = TagNone -> None
    [] tokens[1] = TagSome -> Some(Tail(tokens))

\* ------------------------------------------------------------ prove_pow.py

\* What an external process does when run under /usr/bin/time -v: the return
\* code it ends with, how long it runs, what it prints, the resident set size
\* the wrapper reports (None: no such line) and the time the wait takes
\* beyond a timeout.
PipelineProcs ==
  [exit : ExitCodes, dur : {1}, out : {"out"}, rss : RssValues, lag : {0}]

\* The processes run is applied to on its own.
RunProcs ==
  [exit : ExitCodes, dur : 1..MaxDur, out : {"", "out"}, rss : RssValues,
   lag : 0..MaxLag]

RunTimeouts == {None} \cup {Some(t) : t \in 1..MaxTimeout}

\* subprocess.run raises TimeoutExpired when the process it started has not
\* ended within the timeout.
TimeoutExpired(timeout, proc) == timeout # None /\ proc.dur > timeout[1]

\* A run that waits for the process whatever the timeout.
run_untimed(isLinux, timeout, proc) ==
  IF ~isLinux
  THEN [raised |-> TRUE, stdout |-> "", stderr |-> "", returncode |-> 0,
        elapsed |-> 0, max_memory |-> None]
  ELSE [raised |-> FALSE, stdout |-> proc.out, stderr |-> "",
        returncode |-> proc.exit, elapsed |-> proc.dur,
        max_memory |-> proc.rss]

\* run(cmd, timeout) on a process that behaves as proc.
run(isLinux, timeout, proc) ==
  IF ~isLinux
  THEN [raised |-> TRUE, stdout |-> "", stderr |-> "", returncode |-> 0,
        elapsed |-> 0, max_memory |-> None]
  ELSE IF TimeoutExpired(timeout, proc)
  THEN [raised |-> FALSE, stdout |-> "", stderr |-> "Process timed out",
        returncode |-> 0 - 1, elapsed |-> timeout[1] + proc.lag,
        max_memory |-> None]
  ELSE [raised |-> FALSE, stdout |-> proc.out, stderr |-> "",
        returncode |-> proc.exit, elapsed |-> proc.dur,
        max_memory |-> proc.rss]

\* The processes a call of run starts itself: the wrapper /usr/bin/time,
\* which in turn starts the command.
Spawned(isLinux) == IF isLinux THEN {"time"} ELSE {}
Descendants(isLinux) == IF isLinux THEN {"time", "command"} ELSE {}

\* The processes a call of run started that are still running when it
\* returns.  The wrapper ends after the command it waits for.  On a timeout
\* subprocess.run kills and reaps the process it started, the wrapper; the
\* command gets no signal and runs on until it ends by itself.
StillRunning(isLinux, timeout, proc) ==
  IF isLinux /\ TimeoutExpired(timeout, proc)
              /\ proc.dur > timeout[1] + proc.lag
  THEN {"command"}
  ELSE {}

StepInfo(name, r) ==
  [step |-> name, stdout |-> r.stdout, stderr |-> r.stderr,
   returncode |-> r.returncode, elapsed |-> r.elapsed,
   max_memory |-> r.max_memory]

\* run_prover: the timeout it gives to run for a stage (it calls run(cmd),
\* which leaves the parameter at its default).
StageTimeout == None

\* A pipeline that runs the last stage again when it has failed.
RunProverReturns_retry(name, returncode) ==
  \/ (name # "PROVE" /\ returncode # 0)
  \/ (name = "PROVE" /\ returncode = 0)

\* A pipeline that checks the return code of the first stage only.
RunProverReturns_pieOnly(name, returncode) ==
  \/ (name = "PIE" /\ returncode # 0)
  \/ name = "PROVE"

\* run_prover: after the stage named name ended with returncode, whether
\* run_prover returns steps_info (otherwise it goes on to the next stage).
RunProverReturns(name, returncode) ==
  \/ returncode # 0
  \/ name = "PROVE"

NextStage(name) == IF name = "PIE" THEN "BOOTLOAD" ELSE "PROVE"

\* A job that takes a previous proof file at height 0 as well.
PreviousProofFile_genesis(h) == IF h >= 0 THEN Some(h) ELSE None

\* prove_batch: the previous proof file of the job at height.
PreviousProofFile(h) == IF h > 0 THEN Some(h) ELSE None

\* A job that takes the return code of the first stage for its result.
ProveBatchResult_first(steps) == steps[1].returncode = 0

\* A job that fails when a stage reported no memory size.
ProveBatchResult_measured(steps) ==
  /\ Last(steps).returncode = 0
  /\ \A i \in 1..Len(steps) : steps[i].max_memory # None

\* A job that names the arguments file but leaves the payload unwritten.
WriteArguments_unwritten(dir, h, s, payload) == dir

\* prove_batch: the scratch directory after the arguments file of the job
\* (h, s), named after the batch file light_<h>_<s>.json, has been written
\* and closed.
WriteArguments(dir, h, s, payload) == WriteFile(dir, <<h, s>>, payload)

\* A job that names its proof after the block that follows its height.
ProofFileHeight_next(h, s) == h + 1

\* prove_batch: the height in the name of the proof file of the job (h, s).
ProofFileHeight(h, s) == h + s

\* prove_batch: what it returns for the steps_info run_prover returned.
ProveBatchResult(steps) == Last(steps).returncode = 0

\* Totals that take the memory of the last stage for the maximum.
max_memory_last(steps) == Last(steps).max_memory

\* prove_batch: the sum of the elapsed times of the steps.
total_elapsed(steps) ==
  LET sum[i \in 0..Len(steps)] ==
        IF i = 0 THEN 0 ELSE sum[i - 1] + steps[i].elapsed
  IN  sum[Len(steps)]

\* prove_batch: the memory sizes of the steps that have one, in order.
max_memory_candidates(steps) ==
  LET known == SelectSeq(steps, LAMBDA info : info.max_memory # None)
  IN  [i \in 1..Len(known) |-> known[i].max_memory[1]]

\* prove_batch: the largest of the candidates, None when there is none.
max_memory(steps) ==
  LET candidates == max_memory_candidates(steps)
  IN  IF Len(candidates) > 0
      THEN Some(Max({candidates[i] : i \in 1..Len(candidates)}))
      ELSE None

\* prove_batch: the totals of the steps run_prover returned.
Totals(steps) ==
  [total_elapsed |-> total_elapsed(steps), max_memory |-> max_memory(steps)]

\* main: len(range(start, end, step)) for step # 0.
RangeLen(first, end, stride) ==
  IF stride > 0 /\ first < end THEN ((end - first - 1) \div stride) + 1
  ELSE IF stride < 0 /\ first > end
       THEN ((first - end - 1) \div (0 - stride)) + 1
  ELSE 0

\* A height range that takes the end height itself as well.
HeightRange_inclusive(first, nblocks, stride) ==
  [i \in 1..RangeLen(first, first + nblocks + 1, stride) |->
     first + (i - 1) * stride]

\* main: the heights of height_range, in the order the for loop takes them.
HeightRange(first, nblocks, stride) ==
  [i \in 1..RangeLen(first, first + nblocks, stride) |->
     first + (i - 1) * stride]

\* A loop that goes on to the next height whatever the job returned.
MainContinues_always(success) == TRUE

\* main: whether the loop goes on after a job that returned success.
MainContinues(success) == success

\* A scan that keeps the smaller height (h < max_height for h > max_height).
auto_detect_start_lowest(dir) ==
  LET S == {0} \cup {h \in DOMAIN dir : h >= 0}
  IN  CHOOSE x \in S : \A y \in S : x <= y

\* auto_detect_start: the largest height among the files light_<digits>
\* .proof.json of the proof directory, 0 when there is none.
auto_detect_start(dir) == Max({0} \cup {h \in DOMAIN dir : h >= 0})

height == HeightRange(start, blocks, step)[idx]
total_jobs == Len(HeightRange(start, blocks, step))

Terminal == {"idle", "completed", "halted", "crashed"}

\* ------------------------------------------------------------------ state

\* The proof directory as a run can find it: empty, or holding one proof
\* supplied out of band.
InitStores ==
  {EmptyDir} \cup {WriteFile(EmptyDir, h, <<0, 2>>) : h \in 0..MaxStart}

Init ==
  /\ pc = "idle"
  /\ linux \in BOOLEAN
  /\ runs = 0
  /\ proofs \in InitStores
  /\ batchFiles = EmptyDir
  /\ argsFiles = EmptyDir
  /\ start = 0 /\ blocks = 0 /\ step = 1
  /\ idx = 1
  /\ processed_count = 0
  /\ previous_proof_file = None
  /\ args = <<>>
  /\ steps_info = <<>>
  /\ job_result = None
  /\ started = <<>>
  /\ invoked = <<>>
  /\ failed = {}
  /\ artifact = None
  /\ readProof = {}
  /\ wroteProofs = {}
  /\ wroteArgs = {}
  /\ auto = FALSE
  /\ last_run = None
  /\ proofs_at_launch = proofs
  /\ in_batch = <<>>
  /\ call = None
  /\ returned = None
  /\ metrics = None

\* __main__ and main up to the first call of prove_batch: the start height is
\* the one given or the one auto_detect_start finds; range() raises ValueError
\* for a zero step; an empty range goes straight to the closing log line.
Launch(a_start, a_blocks, a_step) ==
  /\ pc \in Terminal
  /\ runs < MaxRuns
  /\ runs' = runs + 1
  /\ last_run' = IF pc = "idle" THEN None
                 ELSE Some([start |-> start, blocks |-> blocks, step |-> step,
                            pc |-> pc, empty |-> proofs_at_launch = EmptyDir,
                            started |-> started])
  /\ proofs_at_launch' = proofs
  /\ auto' = (a_start = None)
  /\ start' = IF a_start = None THEN auto_detect_start(proofs) ELSE a_start[1]
  /\ blocks' = a_blocks
  /\ step' = a_step
  /\ idx' = 1
  /\ processed_count' = 0
  /\ pc' = IF a_step = 0 THEN "crashed"
           ELSE IF Len(HeightRange(start', a_blocks, a_step)) = 0
                THEN "completed"
           ELSE "job"
  /\ previous_proof_file' = None
  /\ args' = <<>>
  /\ steps_info' = <<>>
  /\ job_result' = None
  /\ started' = <<>>
  /\ invoked' = <<>>
  /\ failed' = {}
  /\ artifact' = None
  /\ readProof' = {}
  /\ wroteProofs' = {}
  /\ wroteArgs' = {}
  /\ metrics' = None
  /\ UNCHANGED <<linux, proofs, batchFiles, argsFiles, in_batch, call, returned>>

\* main, after prove_batch returned success: count the job and take the next
\* height, or log the failure and return.
EndJob(success) ==
  /\ job_result' = Some(success)
  /\ failed' = IF success THEN failed ELSE failed \cup {height}
  /\ IF MainContinues(success)
     THEN /\ processed_count' = processed_count + (IF success THEN 1 ELSE 0)
          /\ idx' = idx + 1
          /\ pc' = IF idx < total_jobs THEN "job" ELSE "completed"
     ELSE /\ processed_count' = processed_count
          /\ idx' = idx
          /\ pc' = "halted"

\* prove_batch up to the call of run_prover: the previous proof file, the
\* batch, the batch file, the arguments and the arguments file.  An exception
\* (of generate_data, or of open() on a missing proof file) is caught at the
\* end of prove_batch, which returns False.
Assemble ==
  /\ pc = "job"
  /\ started' = Append(started, height)
  /\ previous_proof_file' = PreviousProofFile(height)
  /\ steps_info' = <<>>
  /\ wroteProofs' = {}
  /\ \E generated \in BOOLEAN :
       IF ~generated
       THEN /\ EndJob(FALSE)
            /\ args' = <<>>
            /\ wroteArgs' = {}
            /\ UNCHANGED <<batchFiles, argsFiles, readProof>>
       ELSE LET batch_args == generate_data(height, step)
                res == generate_assumevalid_args(
                         format_args_to_cairo_serde(batch_args),
                         previous_proof_file', proofs)
            IN  /\ batchFiles' = WriteFile(batchFiles, <<height, step>>, batch_args)
                /\ readProof' = readProof \cup res.read
                /\ IF res.raised
                   THEN /\ EndJob(FALSE)
                        /\ args' = <<>>
                        /\ wroteArgs' = {}
                        /\ UNCHANGED argsFiles
                   ELSE /\ args' = res.value
                        /\ argsFiles' = WriteArguments(argsFiles, height, step,
                                                       res.value)
                        /\ wroteArgs' = {<<height, step>>}
                        /\ pc' = "PIE"
                        /\ UNCHANGED <<job_result, processed_count, idx, failed>>
  /\ metrics' = None
  /\ UNCHANGED <<linux, runs, proofs, start, blocks, step, invoked, artifact, auto,
                 last_run, proofs_at_launch, in_batch, call, returned>>

\* One stage of run_prover and what follows it.  The stage's process ends as
\* proc says.  The prover writes the proof for height + step when it succeeds;
\* when it fails it may have written the file before failing (partial).
Stage(name) ==
  /\ pc = name
  /\ wroteArgs' = {}
  /\ \E proc \in PipelineProcs, proof \in ProofValues, partial \in BOOLEAN :
       LET r == run(linux, StageTimeout, proc)
           writes == /\ ~r.raised
                     /\ name = "PROVE"
                     /\ (r.returncode = 0 \/ partial)
       IN  /\ (r.raised \/ name # "PROVE") => (proof = <<>> /\ ~partial)
           /\ (~r.raised /\ r.returncode = 0) => ~partial
           /\ IF writes
              THEN /\ proofs' = WriteFile(proofs, ProofFileHeight(height, step),
                                          proof)
                   /\ wroteProofs' = {ProofFileHeight(height, step)}
              ELSE /\ proofs' = proofs
                   /\ wroteProofs' = {}
           /\ artifact' = IF writes /\ r.returncode = 0
                          THEN Some([height |-> ProofFileHeight(height, step),
                                     tokens |-> proof])
                          ELSE artifact
           /\ IF r.raised
              THEN /\ EndJob(FALSE)
                   /\ UNCHANGED <<invoked, steps_info, metrics>>
              ELSE /\ invoked' = Append(invoked, <<height, name>>)
                   /\ steps_info' = Append(steps_info, StepInfo(name, r))
                   /\ IF RunProverReturns(name, r.returncode)
                      THEN /\ metrics' = Some(Totals(steps_info'))
                           /\ EndJob(ProveBatchResult(steps_info'))
                      ELSE /\ pc' = NextStage(name)
                           /\ UNCHANGED <<job_result, processed_count, idx,
                                          failed, metrics>>
  /\ UNCHANGED <<linux, runs, batchFiles, argsFiles, start, blocks, step,
                 previous_proof_file, args, started, readProof, auto,
                 last_run, proofs_at_launch, in_batch, call, returned>>

Next ==
  \/ \E a_start \in StartArgs, a_blocks \in BlocksArgs, a_step \in StepArgs :
       Launch(a_start, a_blocks, a_step)
  \/ \E a_start \in StartArgs : Launch(a_start, DefaultBlocks, DefaultStep)
  \/ Assemble
  \/ Stage("PIE")
  \/ Stage("BOOTLOAD")
  \/ Stage("PROVE")

Spec == Init /\ [][Next]_vars

\* The script with its scheduling: main and prove_batch are sequential code
\* that takes its next step whenever it has one, and a stage that has been
\* started ends, the external process exiting in the end.
FairSpec ==
  /\ Spec
  /\ WF_vars(Assemble)
  /\ WF_vars(Stage("PIE"))
  /\ WF_vars(Stage("BOOTLOAD"))
  /\ WF_vars(Stage("PROVE"))

\* ------------------------------------------------------------ the encoding

\* generate_assumevalid_args on its own: any serialised batch, with no proof
\* path or with the path of file 0 of a proof directory that holds that file
\* with any content, or does not hold it.
InitCodec ==
  /\ pc = "codec"
  /\ in_batch \in SeqsUpTo(Tokens, MaxLen)
  /\ previous_proof_file \in {None, Some(0)}
  /\ proofs \in {EmptyDir} \cup
                {WriteFile(EmptyDir, 0, p) : p \in SeqsUpTo(Tokens, MaxLen)}
  /\ linux = TRUE
  /\ runs = 0
  /\ batchFiles = EmptyDir
  /\ argsFiles = EmptyDir
  /\ start = 0 /\ blocks = 0 /\ step = 1
  /\ idx = 1
  /\ processed_count = 0
  /\ args = <<>>
  /\ steps_info = <<>>
  /\ job_result = None
  /\ started = <<>>
  /\ invoked = <<>>
  /\ failed = {}
  /\ artifact = None
  /\ readProof = {}
  /\ wroteProofs = {}
  /\ wroteArgs = {}
  /\ auto = FALSE
  /\ last_run = None
  /\ proofs_at_launch = proofs
  /\ call = None
  /\ returned = None
  /\ metrics = None

Encode ==
  /\ pc = "codec"
  /\ LET res == generate_assumevalid_args(in_batch, previous_proof_file, proofs)
     IN  /\ pc' = IF res.raised THEN "raised" ELSE "encoded"
         /\ args' = res.value
         /\ readProof' = res.read
  /\ UNCHANGED <<linux, runs, proofs, batchFiles, argsFiles, start, blocks,
                 step, idx, processed_count, previous_proof_file, steps_info,
                 job_result, started, invoked, failed, artifact, wroteProofs,
                 wroteArgs, auto, last_run, proofs_at_launch, in_batch, call,
                 returned, metrics>>

SpecCodec == InitCodec /\ [][Encode]_vars

\* ------------------------------------------------------------ run on its own

\* run on its own: on either platform, with no timeout or one of a few
\* seconds, on a process that ends with any return code after some seconds.
InitRun ==
  /\ pc = "run"
  /\ linux \in BOOLEAN
  /\ call \in {Some(c) : c \in [timeout : RunTimeouts, proc : RunProcs]}
  /\ runs = 0
  /\ proofs = EmptyDir
  /\ batchFiles = EmptyDir
  /\ argsFiles = EmptyDir
  /\ start = 0 /\ blocks = 0 /\ step = 1
  /\ idx = 1
  /\ processed_count = 0
  /\ previous_proof_file = None
  /\ args = <<>>
  /\ steps_info = <<>>
  /\ job_result = None
  /\ started = <<>>
  /\ invoked = <<>>
  /\ failed = {}
  /\ artifact = None
  /\ readProof = {}
  /\ wroteProofs = {}
  /\ wroteArgs = {}
  /\ auto = FALSE
  /\ last_run = None
  /\ proofs_at_launch = proofs
  /\ in_batch = <<>>
  /\ returned = None
  /\ metrics = None

\* One call of run: what it returns, or that it raised, with the processes it
\* started and those of them still running at that moment.
RunCall ==
  /\ pc = "run"
  /\ LET r == run(linux, call[1].timeout, call[1].proc)
     IN  /\ pc' = IF r.raised THEN "raised" ELSE "returned"
         /\ returned' = Some([result |-> r,
                              spawned |-> Spawned(linux),
                              descendants |-> Descendants(linux),
                              running |-> StillRunning(linux, call[1].timeout,
                                                       call[1].proc)])
  /\ UNCHANGED <<linux, runs, proofs, batchFiles, argsFiles, start, blocks,
                 step, idx, processed_count, previous_proof_file, args,
                 steps_info, job_result, started, invoked, failed, artifact,
                 readProof, wroteProofs, wroteArgs, auto, last_run,
                 proofs_at_launch, in_batch, call, metrics>>

SpecRun == InitRun /\ [][RunCall]_vars

\* ------------------------------------------------- the totals on their own

TotalsRss == {None} \cup {Some(m) : m \in 1..MaxRss}

\* The steps_info run_prover can return: the results of PIE, BOOTLOAD and
\* PROVE in that order, up to the first that failed, each with any elapsed
\* time and any memory size or none.
StepsReturned ==
  LET Results(name) ==
        [step : {name}, stdout : {"out"}, stderr : {""},
         returncode : ExitCodes, elapsed : 1..MaxDur, max_memory : TotalsRss]
      Final(name) ==
        {r \in Results(name) : RunProverReturns(name, r.returncode)}
      Inner(name) ==
        {r \in Results(name) : ~RunProverReturns(name, r.returncode)}
  IN  {<<a>> : a \in Final("PIE")}
        \cup {<<a, b>> : a \in Inner("PIE"), b \in Final("BOOTLOAD")}
        \cup {<<a, b, c>> : a \in Inner("PIE"), b \in Inner("BOOTLOAD"),
                            c \in Final("PROVE")}

InitTotals ==
  /\ pc = "totals"
  /\ linux = TRUE
  /\ steps_info \in StepsReturned
  /\ runs = 0
  /\ proofs = EmptyDir
  /\ batchFiles = EmptyDir
  /\ argsFiles = EmptyDir
  /\ start = 0 /\ blocks = 0 /\ step = 1
  /\ idx = 1
  /\ processed_count = 0
  /\ previous_proof_file = None
  /\ args = <<>>
  /\ job_result = None
  /\ started = <<>>
  /\ invoked = <<>>
  /\ failed = {}
  /\ artifact = None
  /\ readProof = {}
  /\ wroteProofs = {}
  /\ wroteArgs = {}
  /\ auto = FALSE
  /\ last_run = None
  /\ proofs_at_launch = proofs
  /\ in_batch = <<>>
  /\ call = None
  /\ returned = None
  /\ metrics = None

\* prove_batch from the return of run_prover on: the totals and the result.
ComputeTotals ==
  /\ pc = "totals"
  /\ pc' = "totalled"
  /\ metrics' = Some(Totals(steps_info))
  /\ job_result' = Some(ProveBatchResult(steps_info))
  /\ UNCHANGED <<linux, runs, proofs, batchFiles, argsFiles, start, blocks,
                 step, idx, processed_count, previous_proof_file, args,
                 steps_info, started, invoked, failed, artifact, readProof,
                 wroteProofs, wroteArgs, auto, last_run, proofs_at_launch,
                 in_batch, call, returned>>

SpecTotals == InitTotals /\ [][ComputeTotals]_vars

\* ================================================================== claims

StagePcs == {"PIE", "BOOTLOAD", "PROVE"}
InRun == pc \in StagePcs \cup {"job", "completed", "halted"}

\* The heights start + k*step (k = 0, 1, ...) below start + blocks, counted
\* and listed without the range of main.
ExpectedCount ==
  Cardinality({k \in 0..blocks : start + k * step < start + blocks})
ExpectedHeights == [i \in 1..ExpectedCount |-> start + (i - 1) * step]

IsPrefix(s, u) ==
  /\ Len(s) <= Len(u)
  /\ \A i \in 1..Len(s) : s[i] = u[i]

\* C1: for start >= 0, blocks >= 0 and step > 0 the jobs a run starts are, in
\* order, the heights start + k*step below start + blocks: at every moment
\* the heights started are a prefix of that sequence (so they increase
\* strictly, repeat nothing and skip nothing), a job that is under way or
\* about to start is the next one of it, and a run that ends with no failed
\* job has started all of them.
C1_HeightsVisited ==
  (InRun /\ start >= 0 /\ blocks >= 0 /\ step > 0) =>
    /\ IsPrefix(started, ExpectedHeights)
    /\ \A i, j \in 1..Len(started) : i < j => started[i] < started[j]
    /\ (pc = "job") => (Len(started) < ExpectedCount
                        /\ height = ExpectedHeights[Len(started) + 1])
    /\ (pc = "completed") => started = ExpectedHeights
    /\ (failed = {} /\ pc \in StagePcs) => height = Last(started)

C1_Witness ==
  /\ pc = "completed"
  /\ start = 1 /\ blocks = 2 /\ step = 1
  /\ started = <<1, 2>>

\* C2: once the job for height H has failed, the run has started no job for a
\* height above H: no call of prove_batch, no arguments file written and no
\* pipeline stage invoked for such a height.
C2_ChainBreak ==
  \A H \in failed :
    /\ \A i \in 1..Len(started) : started[i] <= H
    /\ \A i \in 1..Len(invoked) : invoked[i][1] <= H
    /\ \A k \in wroteArgs : k[1] <= H
    /\ pc = "halted"

C2_Witness ==
  /\ pc = "halted"
  /\ failed = {0}
  /\ step = 1 /\ blocks = 2
  /\ Len(steps_info) = 3

\* The serialised batch of the job that is under way.
JobHeight == Last(started)
JobSerialized == format_args_to_cairo_serde(generate_data(JobHeight, step))

\* C3: in every run with step > 0, a job at a height H above the start height
\* passes a payload that is the serialised batch, the present tag ("0x0") and
\* then exactly the tokens of the artifact the preceding job of the run wrote
\* for height H, which is in the proof directory when the job reads it; and
\* no job at a height other than 0 carries the absent tag ("0x1").
C3_ChainLink ==
  (pc \in StagePcs /\ step > 0) =>
    /\ (JobHeight > start) =>
         /\ artifact # None
         /\ artifact[1].height = JobHeight
         /\ JobHeight \in DOMAIN proofs
         /\ proofs[JobHeight] = artifact[1].tokens
         /\ args = (JobSerialized \o <<0>>) \o artifact[1].tokens
    /\ (JobHeight # 0) => args[Len(JobSerialized) + 1] # 1

\* C4: generate_assumevalid_args returns the serialised batch followed by the
\* single token "0x1" when no proof path is given, and the serialised batch
\* followed by "0x0" and then the tokens of the proof file, all of them and in
\* their order, when one is given, an empty proof included; the tag comes
\* before the proof tokens.
C4_ArgumentEncoding ==
  (pc = "encoded") =>
    /\ (previous_proof_file = None) =>
         /\ args = in_batch \o <<1>>
         /\ Len(args) = Len(in_batch) + 1
    /\ (previous_proof_file # None) =>
         /\ args = (in_batch \o <<0>>) \o proofs[previous_proof_file[1]]
         /\ args[Len(in_batch) + 1] = 0
         /\ SubSeq(args, Len(in_batch) + 2, Len(args))
              = proofs[previous_proof_file[1]]

C4_Witness ==
  /\ pc = "encoded"
  /\ previous_proof_file = Some(0)
  /\ proofs[0] = <<>>
  /\ in_batch = <<2, 0>>
  /\ args = <<2, 0, 0>>

\* The stages invoked for the job at height h, in the order of invocation.
InvokedFor(h) ==
  LET mine == SelectSeq(invoked, LAMBDA e : e[1] = h)
  IN  [i \in 1..Len(mine) |-> mine[i][2]]

\* C5: the stages run_prover invokes for a job are a prefix of PIE, BOOTLOAD,
\* PROVE; its results are one per stage invoked, in that order; every result
\* but the last has return code 0; and when it has returned, either all three
\* stages ran or the last result is the failed stage (so no stage is invoked
\* after a failed one).
C5_StopOnFirstFailure ==
  (started # <<>>) =>
    /\ IsPrefix(InvokedFor(JobHeight), Stages)
    /\ Len(steps_info) = Len(InvokedFor(JobHeight))
    /\ \A i \in 1..Len(steps_info) : steps_info[i].step = Stages[i]
    /\ \A i \in 1..Len(steps_info) :
         i < Len(steps_info) => steps_info[i].returncode = 0
    /\ (pc \in StagePcs) =>
         /\ \A i \in 1..Len(steps_info) : steps_info[i].returncode = 0
         /\ pc = Stages[Len(steps_info) + 1]
    /\ (pc \notin StagePcs /\ steps_info # <<>>) =>
         (Len(steps_info) = 3 \/ Last(steps_info).returncode # 0)

\* Stage 2 of 3 failed: two results, the second nonzero, no third invocation.
C5_Witness ==
  /\ pc = "halted"
  /\ Len(steps_info) = 2
  /\ steps_info[1].returncode = 0
  /\ steps_info[2].returncode # 0
  /\ InvokedFor(JobHeight) = <<"PIE", "BOOTLOAD">>

\* C6: a job at a height H > 0 whose proof file is not in the proof directory
\* fails before any stage is invoked: the run is halted with that job
\* reported failed and no later job started, no process was spawned for it,
\* it wrote no arguments file and no proof for H + step, and its payload was
\* never built with the absent tag in place of the missing proof.
C6_MissingDependency ==
  \A i \in 1..Len(started) :
    LET H == started[i]
    IN  (H > 0 /\ H \notin DOMAIN proofs) =>
          /\ i = Len(started)
          /\ pc = "halted"
          /\ job_result = Some(FALSE)
          /\ H \in failed
          /\ InvokedFor(H) = <<>>
          /\ steps_info = <<>>
          /\ wroteArgs = {}
          /\ wroteProofs = {}
          /\ artifact = None \/ artifact[1].height # H + step
          /\ (H + step \in DOMAIN proofs) =>
               /\ H + step \in DOMAIN proofs_at_launch
               /\ proofs[H + step] = proofs_at_launch[H + step]
          /\ args # JobSerialized \o <<1>>

C6_Witness ==
  /\ pc = "halted"
  /\ start = 1 /\ step = 1 /\ blocks = 2
  /\ started = <<1>>
  /\ 1 \notin DOMAIN proofs
  /\ <<1, 1>> \in DOMAIN batchFiles
  /\ job_result = Some(FALSE)
  /\ invoked = <<>>

\* C7: a run given step <= 0 or start < 0 is rejected before any job is
\* started: it starts no job and never ends with the report that all jobs
\* have been processed successfully.
C7_ParameterValidation ==
  (runs > 0 /\ (step <= 0 \/ start < 0)) =>
    /\ started = <<>>
    /\ pc \notin StagePcs \cup {"job", "completed"}

\* The previous run, when the current one was started with an auto-detected
\* start after a run with start = 0, blocks = N >= 0 and step > 0 against an
\* empty proof directory.
LastRun == last_run[1]
ResumedFromZero ==
  /\ auto
  /\ last_run # None
  /\ LastRun.empty
  /\ LastRun.start = 0
  /\ LastRun.blocks >= 0
  /\ LastRun.step > 0

\* No proof file for a height <= n has been written or changed by this run.
NoArtifactUpTo(n) ==
  /\ \A h \in wroteProofs : h > n
  /\ \A h \in DOMAIN proofs :
       h <= n => (h \in DOMAIN proofs_at_launch
                  /\ proofs[h] = proofs_at_launch[h])

HighestArtifact(dir) ==
  IF DOMAIN dir = {} THEN 0 ELSE Max(DOMAIN dir)

\* Both the current run and the one before it, if any, were given valid
\* parameters.
ValidRuns ==
  /\ start >= 0 /\ blocks >= 0 /\ step > 0
  /\ (last_run # None) =>
       (LastRun.start >= 0 /\ LastRun.blocks >= 0 /\ LastRun.step > 0)

C9_WriteOnce ==
  [][ ValidRuns' =>
        /\ \A h \in wroteProofs' : h \notin DOMAIN proofs
        /\ \A k \in wroteArgs' : k \notin DOMAIN argsFiles
        /\ \A h \in DOMAIN proofs :
             h \in DOMAIN proofs' /\ proofs'[h] = proofs[h]
        /\ \A k \in DOMAIN argsFiles :
             k \in DOMAIN argsFiles' /\ argsFiles'[k] = argsFiles[k] ]_vars

\* C10: the job at height 0 has no previous proof file, reads no proof file
\* and carries the absent tag whatever the proof directory holds; and a job
\* that reached the pipeline carries the present tag, and has read its proof
\* file, exactly when its height is above 0.
C10_Genesis ==
  (started # <<>> /\ pc # "job") =>
    /\ (JobHeight = 0) =>
         /\ previous_proof_file = None
         /\ 0 \notin readProof
         /\ (pc \in StagePcs) => args = JobSerialized \o <<1>>
    /\ (pc \in StagePcs) =>
         /\ (args[Len(JobSerialized) + 1] = 0) <=> (JobHeight > 0)
         /\ (JobHeight \in readProof) <=> (JobHeight > 0)
         /\ (previous_proof_file # None) <=> (JobHeight > 0)

\* The job at height 0 in the pipeline while a file for height 0 exists.
C10_Witness ==
  /\ pc = "PIE"
  /\ JobHeight = 0
  /\ 0 \in DOMAIN proofs
  /\ args = <<0, 1, 1>>

\* The call of run on its own, its result, and whether the process it was
\* given was still running when the timeout elapsed.
RunTimeout == call[1].timeout
RunProc == call[1].proc
RunResult == returned[1].result
TimedOut == RunTimeout # None /\ RunProc.dur > RunTimeout[1]

\* C11 as stated: on Linux, a call of run whose process has not ended when
\* the timeout elapses returns, without raising, return code -1, elapsed
\* equal to the timeout, no memory size, an empty stdout and the timeout
\* message as stderr; and no call whose process exited (with a status >= 0)
\* before the timeout returns -1.
C11_TimeoutResult ==
  (pc \in {"returned", "raised"} /\ linux) =>
    /\ TimedOut =>
         /\ pc = "returned"
         /\ RunResult.returncode = 0 - 1
         /\ RunResult.elapsed = RunTimeout[1]
         /\ RunResult.max_memory = None
         /\ RunResult.stdout = ""
         /\ RunResult.stderr = "Process timed out"
    /\ (~TimedOut /\ RunProc.exit >= 0) => RunResult.returncode # 0 - 1

\* C11 as amended: the same, but elapsed is the time measured from the start
\* of the call to the return of the wait, which also reaps the killed
\* process: it is at least the timeout, and exceeds it by the time that wait
\* took.
C11_Timeout ==
  (pc \in {"returned", "raised"} /\ linux) =>
    /\ TimedOut =>
         /\ pc = "returned"
         /\ RunResult.returncode = 0 - 1
         /\ RunResult.elapsed >= RunTimeout[1]
         /\ RunResult.elapsed = RunTimeout[1] + RunProc.lag
         /\ RunResult.max_memory = None
         /\ RunResult.stdout = ""
         /\ RunResult.stderr = "Process timed out"
    /\ (~TimedOut /\ RunProc.exit >= 0) => RunResult.returncode # 0 - 1

\* A process of 3 seconds under a timeout of 2 whose wait took a further one.
C11_Witness ==
  /\ pc = "returned"
  /\ linux
  /\ RunTimeout = Some(2)
  /\ RunProc.dur = 3
  /\ RunProc.exit = 0
  /\ RunResult.returncode = 0 - 1
  /\ RunResult.elapsed = 3

\* C12: in a run with start >= 0, blocks >= 0 and step > 0 every stage is
\* invoked with a configured timeout; and a stage of the job at height H
\* that ran longer than it has the return code -1, is the last stage
\* invoked, fails the job and halts the run, and leaves no artifact for
\* H + step written by this run.
C12_StageTimeout ==
  \A i \in 1..Len(steps_info) :
    (start >= 0 /\ blocks >= 0 /\ step > 0) =>
    /\ StageTimeout # None
    /\ (steps_info[i].elapsed > StageTimeout[1]) =>
         /\ steps_info[i].returncode = 0 - 1
         /\ i = Len(steps_info)
         /\ pc = "halted"
         /\ JobHeight \in failed
         /\ artifact = None \/ artifact[1].height # JobHeight + step

\* C13: a call of run that returns, after the process ended or on a timeout,
\* has itself started exactly one process, and none of the processes started
\* on its behalf (the wrapper /usr/bin/time and the command it times) is
\* still running at that moment.
C13_NoProcessLeft ==
  (pc = "returned") =>
    /\ Cardinality(returned[1].spawned) = 1
    /\ returned[1].running = {}

\* The last job of the run got as far as run_prover and has ended.
PipelineEnded == started # <<>> /\ args # <<>> /\ pc \notin StagePcs

AllStagesZero ==
  /\ Len(steps_info) = 3
  /\ \A i \in 1..Len(steps_info) : steps_info[i].returncode = 0

KnownMemory ==
  {steps_info[i].max_memory[1] :
     i \in {j \in 1..Len(steps_info) : steps_info[j].max_memory # None}}

\* C15: for a job that succeeded, all three stages have a result, the total
\* elapsed time is the sum of their elapsed times, and the memory total is
\* the largest of the sizes that are known: it is one of them and none is
\* larger, and it is unknown exactly when no stage has a size.
C15_AggregateMetrics ==
  (pc = "totalled" /\ job_result = Some(TRUE)) =>
    /\ Len(steps_info) = 3
    /\ metrics[1].total_elapsed =
         steps_info[1].elapsed + steps_info[2].elapsed + steps_info[3].elapsed
    /\ (metrics[1].max_memory = None) <=> (KnownMemory = {})
    /\ (KnownMemory # {}) =>
         /\ metrics[1].max_memory[1] \in KnownMemory
         /\ \A k \in KnownMemory : k <= metrics[1].max_memory[1]

\* Stages of 1, 2 and 3 seconds with no size, size 2 and size 1.
C15_Witness ==
  /\ pc = "totalled"
  /\ job_result = Some(TRUE)
  /\ steps_info[1].max_memory = None
  /\ steps_info[2].max_memory = Some(2)
  /\ steps_info[3].max_memory = Some(1)
  /\ steps_info[1].elapsed = 1
  /\ steps_info[2].elapsed = 2
  /\ steps_info[3].elapsed = 3
  /\ metrics = Some([total_elapsed |-> 6, max_memory |-> Some(2)])

\* The optional proofs the encoder is compared on: none, or any proof of up
\* to MaxLen tokens; and the arguments it returns for the batch of the state
\* with such a proof.
OptionalProofs == {None} \cup {Some(p) : p \in SeqsUpTo(Tokens, MaxLen)}
EncodeOptional(x) ==
  IF x = None
  THEN generate_assumevalid_args(in_batch, None, EmptyDir).value
  ELSE generate_assumevalid_args(in_batch, Some(0),
                                 WriteFile(EmptyDir, 0, x[1])).value

\* The optional proof the encoder was given in this state.
EncodedProof ==
  IF previous_proof_file = None THEN None
  ELSE Some(proofs[previous_proof_file[1]])

\* C16: decoding the tokens that follow the serialised batch gives back the
\* optional proof that was encoded, no proof or the tokens of the proof
\* file (an empty proof and a proof that starts with a tag value included);
\* and no other optional proof has the same encoding.
C16_RoundTrip ==
  (pc = "encoded") =>
    /\ decode(SubSeq(args, Len(in_batch) + 1, Len(args))) = EncodedProof
    /\ \A y \in OptionalProofs :
         (y # EncodedProof) => EncodeOptional(y) # args

\* A proof of the single token 1, the value of the absent tag.
C16_Witness ==
  /\ pc = "encoded"
  /\ in_batch = <<>>
  /\ previous_proof_file = Some(0)
  /\ proofs[0] = <<1>>
  /\ args = <<0, 1>>
  /\ decode(args) = Some(<<1>>)

\* C17: while the pipeline of the job (height, step) is under way, and once a
\* stage has been invoked for it, the scratch directory holds the arguments
\* file keyed by (height, step); its content is the complete payload, the
\* serialised batch, the tag and the proof tokens, which is the payload the
\* job built and hands to the first stage; and every job of the run a stage
\* was invoked for has such a file.
C17_PayloadPersisted ==
  /\ (pc \in StagePcs \/ (started # <<>> /\ InvokedFor(JobHeight) # <<>>)) =>
       /\ <<JobHeight, step>> \in DOMAIN argsFiles
       /\ argsFiles[<<JobHeight, step>>] = args
       /\ IsPrefix(JobSerialized, args)
       /\ args = IF previous_proof_file = None
                 THEN JobSerialized \o <<TagNone>>
                 ELSE (JobSerialized \o <<TagSome>>) \o proofs[JobHeight]
  /\ \A i \in 1..Len(invoked) : <<invoked[i][1], step>> \in DOMAIN argsFiles

\* The second job of a run in its last stage, both arguments files on disk.
C17_Witness ==
  /\ pc = "PROVE"
  /\ start = 0 /\ blocks = 2 /\ step = 1
  /\ started = <<0, 1>>
  /\ proofs[1] = <<0, 2>>
  /\ argsFiles[<<1, 1>>] = <<1, 1, 0, 0, 2>>
  /\ args = <<1, 1, 0, 0, 2>>
  /\ <<0, 1>> \in DOMAIN argsFiles

\* The jobs of the run whose prove_batch has returned True.
Succeeded ==
  Len(started) - Cardinality(failed) - (IF pc \in StagePcs THEN 1 ELSE 0)

\* C18: in a run that has a height range (step # 0), the last prove_batch
\* that returned reported success exactly when PIE, BOOTLOAD and PROVE were
\* all invoked for its job and each returned 0; a job failed is the last job
\* started, so a next height is taken only after a success; the count of
\* processed jobs is the number of jobs that succeeded so far; the run is
\* completed only with every height of the range started and none failed,
\* halted only with a job failed, and it ends in no other way.
C18_SuccessDecision ==
  (runs > 0 /\ step # 0) =>
    /\ (started # <<>> /\ pc \notin StagePcs) =>
         /\ job_result # None
         /\ job_result[1] <=> (/\ InvokedFor(JobHeight) = Stages
                               /\ AllStagesZero)
         /\ job_result[1] <=> (JobHeight \notin failed)
    /\ \A i \in 1..Len(started) : started[i] \in failed => i = Len(started)
    /\ (pc = "job" /\ started # <<>>) => job_result = Some(TRUE)
    /\ processed_count = Succeeded
    /\ (pc = "completed") =>
         /\ failed = {}
         /\ started = HeightRange(start, blocks, step)
         /\ processed_count = total_jobs
    /\ (pc = "halted") =>
         /\ failed # {}
         /\ job_result = Some(FALSE)
         /\ processed_count < total_jobs
    /\ pc \in StagePcs \cup {"job", "completed", "halted"}

\* A run halted by the last stage of its second job, the first job counted.
C18_Witness ==
  /\ start = 0 /\ blocks = 2 /\ step = 1
  /\ started = <<0, 1>>
  /\ pc = "halted"
  /\ processed_count = 1
  /\ Len(steps_info) = 3
  /\ job_result = Some(FALSE)

\* ceil(blocks / step) for blocks >= 0 and step > 0.
CeilJobs == (blocks + step - 1) \div step

\* C19: a run with blocks >= 0 and step > 0 (any start) whose stages all end
\* is completed or halted in the end; at every moment it has started at most
\* ceil(blocks/step) jobs and invoked at most three stages for each; and
\* only a stage, an external process, is ever waited for: main and
\* prove_batch always have their next step until the run has ended.
C19_Termination ==
  /\ [](( runs > 0 /\ blocks >= 0 /\ step > 0) =>
          /\ Len(started) <= CeilJobs
          /\ Len(invoked) <= 3 * Len(started)
          /\ \A i \in 1..Len(started) : Len(InvokedFor(started[i])) <= 3
          /\ pc \in StagePcs \cup {"job", "completed", "halted"}
          /\ (pc = "job") => ENABLED Assemble)
  /\ (runs > 0 /\ blocks >= 0 /\ step > 0)
       ~> (pc \in {"completed", "halted"})

\* A run over two heights that took both jobs through all three stages.
C19_Witness ==
  /\ pc = "completed"
  /\ start = 0 /\ blocks = 2 /\ step = 1
  /\ Len(started) = 2
  /\ Len(invoked) = 6

\* The height of the last proof a completed run with valid parameters wrote.
TopHeight == start + CeilJobs * step

====
